---- MODULE Spec2Model ----
(***************************************************************************)
(* Model of the graph positional-encoding engine of                        *)
(* lib/positional_encoding.py: the cache front end (pos_enc), the compute  *)
(* pipeline (compute_pos_enc), the cache path derivation (pe_path_from)    *)
(* and the diffusion encoder (AddRandomWalkPE.forward with                 *)
(* get_self_loop_attr).                                                    *)
(*                                                                         *)
(* Floating point values are modelled as exact fractions <<n, d>>:         *)
(* d > 0 is the reduced fraction n/d, <<0, 0>> is NaN, <<1, 0>> is +Inf    *)
(* and <<-1, 0>> is -Inf.  A matrix is a record [rows, cols, v] where v    *)
(* is the sequence of its rows, so that a matrix with no column keeps its  *)
(* row count, as a numpy array of shape (rows, 0) does.                    *)
(***************************************************************************)
EXTENDS Integers, Sequences, FiniteSets, TLC

\* ------------------------------------------------------------------ bounds

\* Largest number of rows and of columns of the adjacency table.
MaxDim == 2
\* Largest requested block size (le_size, rw_size, n2v_size).
MaxSize == 1
\* Largest pe_size token of the cache file name.
MaxPeSize == 1
\* Number of pos_enc calls made in sequence on the same arguments.
MaxCalls == 2
\* Diffusion encoder inputs: node ids are 0..MaxNode, at most MaxEdges edges,
\* walk lengths 1..MaxWalk, edge weights 0..MaxWeight.
MaxNode == 2
MaxEdges == 2
MaxWalk == 3
MaxWeight == 2
\* The spectral encoder on its own: the number of eigenvectors asked for is at
\* most MaxK, an eigenvalue is in 0..MaxEig.
MaxK == 2
MaxEig == 2
\* The embedding trainer on its own: the embedding dimension (the batch size of
\* the loader) is at most MaxEmbed, a loss is in 0..MaxLoss.
MaxEmbed == 2
MaxLoss == 1
\* Largest entry of the adjacency table.
MaxEntry == 1
\* Eigenvalues, eigenvector offsets and embedding values are drawn from 0..MaxVal.
MaxVal == 1

\* --------------------------------------------------------------- fractions

Abs(x) == IF x < 0 THEN -x ELSE x

Max(a, b) == IF a >= b THEN a ELSE b

RECURSIVE GCD(_, _)
GCD(a, b) == IF b = 0 THEN a ELSE GCD(b, a % b)

\* The float n/d, as IEEE division gives it: 0/0 is NaN, x/0 is +-Inf.
Frac(n, d) ==
    IF d = 0 THEN (IF n = 0 THEN <<0, 0>> ELSE IF n > 0 THEN <<1, 0>> ELSE <<-1, 0>>)
    ELSE LET s == IF d < 0 THEN -1 ELSE 1
             g == GCD(Abs(n), Abs(d))
         IN  <<(s * n) \div g, (s * d) \div g>>

Zero == <<0, 1>>
One == <<1, 1>>
NaN == <<0, 0>>

IsNaN(x) == x = <<0, 0>>
IsInf(x) == x[2] = 0 /\ x[1] # 0
IsFinite(x) == x[2] > 0

FAdd(x, y) == Frac(x[1] * y[2] + y[1] * x[2], x[2] * y[2])
FMul(x, y) == Frac(x[1] * y[1], x[2] * y[2])
\* x <= y on finite fractions.
FLeq(x, y) == x[1] * y[2] <= y[1] * x[2]

\* ---------------------------------------------------------------- matrices

\* np.array([[] for i in range(r)]): r rows and no column.
EmptyBlock(r) == [rows |-> r, cols |-> 0, v |-> [i \in 1..r |-> << >>]]

Size(x) == x.rows * x.cols

Entries(x) == {x.v[i][j] : i \in 1..x.rows, j \in 1..x.cols}

\* ------------------------------------------------------- graph representation

\* Largest entry of a sequence of naturals, -1 for the empty sequence.
RECURSIVE SeqMax(_)
SeqMax(s) == IF s = << >> THEN -1 ELSE Max(Head(s), SeqMax(Tail(s)))

\* Data(edge_index=...).num_nodes: no node count is given, so it is derived
\* from the largest index present (max + 1, and 0 for no edge).
NumNodes(edge_index) == Max(SeqMax(edge_index[1]), SeqMax(edge_index[2])) + 1

\* data.num_edges
NumEdges(edge_index) == Len(edge_index[1])

\* Data(edge_index=edge_index): no edge_weight attribute is set.
Data(edge_index) ==
    [edge_index |-> edge_index, weighted |-> FALSE, edge_weight |-> << >>,
     num_nodes |-> NumNodes(edge_index)]

\* ---------------------------------------------------------- sparse tensors

\* A sparse tensor [kind, n, idx, val] stores one value per stored index pair
\* <<i, j>> of idx; a dense tensor [kind, n, m] stores m[i][j] for every pair.
is_torch_sparse_tensor(out) == out.kind = "sparse"

\* Sum of value[p] over the positions p <= k of the edge list that hold <<i, j>>.
RECURSIVE SumAt(_, _, _, _, _)
SumAt(edge_index, value, i, j, k) ==
    IF k = 0 THEN Zero
    ELSE LET rest == SumAt(edge_index, value, i, j, k - 1)
         IN  IF edge_index[1][k] = i /\ edge_index[2][k] = j
             THEN FAdd(rest, value[k]) ELSE rest

\* to_torch_csr_tensor(edge_index, value, size): the COO tensor is coalesced
\* (the values of a repeated index pair are summed) and stored by row.
to_torch_csr_tensor(edge_index, value, n) ==
    LET E == NumEdges(edge_index)
        idx == {<<edge_index[1][p], edge_index[2][p]>> : p \in 1..E}
    IN  [kind |-> "sparse", n |-> n, idx |-> idx,
         val |-> [p \in idx |-> SumAt(edge_index, value, p[1], p[2], E)]]

\* sum over k' < k of a[i, k'] * b[k', j], over the stored entries.
RECURSIVE DotAt(_, _, _, _, _)
DotAt(a, b, i, j, k) ==
    IF k = 0 THEN Zero
    ELSE LET rest == DotAt(a, b, i, j, k - 1)
         IN  IF <<i, k - 1>> \in a.idx /\ <<k - 1, j>> \in b.idx
             THEN FAdd(rest, FMul(a.val[<<i, k - 1>>], b.val[<<k - 1, j>>]))
             ELSE rest

\* out @ adj on sparse tensors: an entry is stored where some product term is.
MatMul(a, b) ==
    LET idx == {p \in (0..(a.n - 1)) \X (0..(a.n - 1)) :
                   \E k \in 0..(a.n - 1) : <<p[1], k>> \in a.idx /\ <<k, p[2]>> \in b.idx}
    IN  [kind |-> "sparse", n |-> a.n, idx |-> idx,
         val |-> [p \in idx |-> DotAt(a, b, p[1], p[2], a.n)]]

\* The stored index pairs by row, then by column.
RECURSIVE SortPairs(_)
SortPairs(S) ==
    IF S = {} THEN << >>
    ELSE LET m == CHOOSE p \in S :
                      \A q \in S : p[1] < q[1] \/ (p[1] = q[1] /\ p[2] <= q[2])
         IN  <<m>> \o SortPairs(S \ {m})

\* to_edge_index(out): the index pairs and the values of the stored entries.
to_edge_index(out) ==
    LET s == SortPairs(out.idx)
    IN  [edge_index |-> <<[p \in 1..Len(s) |-> s[p][1]], [p \in 1..Len(s) |-> s[p][2]]>>,
         edge_attr |-> [p \in 1..Len(s) |-> out.val[s[p]]]]

\* ------------------------------------------------------- get_self_loop_attr

\* edge_index[0] == edge_index[1]
LoopMask(edge_index) ==
    [p \in 1..NumEdges(edge_index) |-> edge_index[1][p] = edge_index[2][p]]

\* The positions selected by a boolean mask, in order.
RECURSIVE Masked(_, _)
Masked(mask, k) ==
    IF k = 0 THEN << >>
    ELSE IF mask[k] THEN Append(Masked(mask, k - 1), k) ELSE Masked(mask, k - 1)

\* get_self_loop_attr with the loop mask left out: every stored entry of a row
\* is written to the node of that row.
get_self_loop_attr_NoMask(edge_index, edge_attr, num_nodes) ==
    LET E == NumEdges(edge_index)
        last(i) == CHOOSE q \in 1..E :
                       edge_index[1][q] = i /\ \A r \in 1..E : edge_index[1][r] = i => r <= q
    IN  [i \in 0..(num_nodes - 1) |->
            IF \E q \in 1..E : edge_index[1][q] = i THEN edge_attr[last(i)] ELSE Zero]

\* get_self_loop_attr(edge_index, edge_attr, num_nodes): the value of the
\* self-loop (i, i) of every node i, zero where there is none.
get_self_loop_attr(edge_index, edge_attr, num_nodes) ==
    LET loop_mask == LoopMask(edge_index)
        sel == Masked(loop_mask, Len(loop_mask))
        loop_index == [q \in 1..Len(sel) |-> edge_index[1][sel[q]]]
        loop_attr == [q \in 1..Len(sel) |-> edge_attr[sel[q]]]
        \* full_loop_attr[loop_index] = loop_attr: the last write to an index stays.
        last(i) == CHOOSE q \in 1..Len(sel) :
                       loop_index[q] = i /\ \A r \in 1..Len(sel) : loop_index[r] = i => r <= q
    IN  [i \in 0..(num_nodes - 1) |->
            IF \E q \in 1..Len(sel) : loop_index[q] = i THEN loop_attr[last(i)] ELSE Zero]

\* ----------------------------------------------------------- AddRandomWalkPE

\* N <= 2_000 selects the dense code path.
DenseThreshold == 2000

\* scatter(value, row, dim_size=N, reduce='sum'): the out-weight of node i.
RECURSIVE Scatter(_, _, _, _)
Scatter(value, row, i, k) ==
    IF k = 0 THEN 0
    ELSE Scatter(value, row, i, k - 1) + (IF row[k] = i THEN value[k] ELSE 0)

\* value = 1.0 / scatter(value, row).clamp(min=1)[row]
TransitionValue(data) ==
    LET row == data.edge_index[1]
        E == NumEdges(data.edge_index)
        value == IF ~data.weighted THEN [p \in 1..E |-> 1] ELSE data.edge_weight
    IN  [p \in 1..E |-> Frac(1, Max(Scatter(value, row, row[p], E), 1))]

\* adj = torch.zeros((N, N)); adj[row, col] = value
DenseAdj(data, value) ==
    LET row == data.edge_index[1]
        col == data.edge_index[2]
        E == NumEdges(data.edge_index)
        last(i, j) == CHOOSE p \in 1..E :
                          /\ row[p] = i /\ col[p] = j
                          /\ \A q \in 1..E : (row[q] = i /\ col[q] = j) => q <= p
        at(i, j) == IF \E p \in 1..E : row[p] = i /\ col[p] = j
                    THEN value[last(i, j)] ELSE Zero
        n == data.num_nodes
    IN  [kind |-> "dense", n |-> n,
         m |-> [i \in 0..(n - 1) |-> [j \in 0..(n - 1) |-> at(i, j)]]]

\* The dense tensor of the N <= 2_000 branch kept as the operator of the walk
\* (the later assignment of the CSR tensor skipped on that branch).
TransitionOperatorAt_KeepsDense(data, threshold) ==
    LET N == data.num_nodes
        value == TransitionValue(data)
        dense == DenseAdj(data, value)
        csr == to_torch_csr_tensor(data.edge_index, value, N)
    IN  IF N <= threshold
        THEN [csr EXCEPT !.val = [p \in csr.idx |-> dense.m[p[1]][p[2]]]]
        ELSE csr

\* The transition operator the walk uses, for the threshold of the dense code
\* path: the dense tensor is built when N <= threshold, and adj is then
\* assigned the CSR tensor whatever N is.
TransitionOperatorAt(data, threshold) ==
    LET N == data.num_nodes
        value == TransitionValue(data)
        adj0 == IF N <= threshold THEN DenseAdj(data, value) ELSE [kind |-> "unset"]
        adj == to_torch_csr_tensor(data.edge_index, value, N)
    IN  adj

\* if N <= 2_000: ...
TransitionOperator(data) == TransitionOperatorAt(data, DenseThreshold)

\* get_pe(out): the diagonal of out.
get_pe(out, N) ==
    IF is_torch_sparse_tensor(out)
    THEN LET e == to_edge_index(out)
         IN  get_self_loop_attr(e.edge_index, e.edge_attr, N)
    ELSE [i \in 0..(N - 1) |-> out.m[i][i]]

\* The loop of forward: pe_list holds get_pe(out) of the first tensor and of
\* each of the remaining products out = out @ adj.
RECURSIVE PeList(_, _, _, _)
PeList(adj, out, N, remaining) ==
    IF remaining = 0 THEN <<get_pe(out, N)>>
    ELSE <<get_pe(out, N)>> \o PeList(adj, MatMul(out, adj), N, remaining - 1)

\* forward(data).random_walk_pe for the threshold of the dense code path: the
\* entries of pe_list stacked as columns.
RandomWalkPEAt(data, walk_length, threshold) ==
    LET N == data.num_nodes
        adj == TransitionOperatorAt(data, threshold)
        pe_list == PeList(adj, adj, N, Max(walk_length - 1, 0))
    IN  [rows |-> N, cols |-> Len(pe_list),
         v |-> [i \in 1..N |-> [t \in 1..Len(pe_list) |-> pe_list[t][i - 1]]]]

\* AddRandomWalkPE(walk_length).forward(data).random_walk_pe
RandomWalkPE(data, walk_length) == RandomWalkPEAt(data, walk_length, DenseThreshold)

\* ------------------------------------------------- AddLaplacianEigenvectorPE

\* The orders eig_vals.argsort() may return: ascending, ties in any order.
ArgSorts(eig_vals) ==
    LET n == Len(eig_vals)
    IN  {o \in [1..n -> 1..n] :
            /\ \A a, b \in 1..n : a # b => o[a] # o[b]
            /\ \A a \in 1..(n - 1) : eig_vals[o[a]] <= eig_vals[o[a + 1]]}

\* pe = eig_vecs[:, order][:, 0:k] * sign: the eigenvector of the smallest
\* eigenvalue kept, the one of the largest dropped.
LaplacianPE_KeepsFirst(eig_vecs, order, sign, k, N) ==
    [rows |-> N, cols |-> k,
     v |-> [i \in 1..N |-> [c \in 1..k |-> <<eig_vecs[i][order[c]] * sign[c], 1>>]]]

\* AddLaplacianEigenvectorPE(k)(data).laplacian_eigenvector_pe for the k + 1
\* eigenpairs the solver returned, the order argsort gave and the drawn signs:
\* pe = eig_vecs[:, order][:, 1:k + 1] * sign.
LaplacianPE(eig_vecs, order, sign, k, N) ==
    [rows |-> N, cols |-> k,
     v |-> [i \in 1..N |-> [c \in 1..k |-> <<eig_vecs[i][order[c + 1]] * sign[c], 1>>]]]

\* sign = -1 + 2 * torch.randint(0, 2, (k, ))
Signs(k) == [1..k -> {-1 + 2 * b : b \in 0..1}]

\* ------------------------------------------------------------- the assembler

\* x.min() and x.max() of a block of finite entries.
MinOf(x) == CHOOSE m \in Entries(x) : \A e \in Entries(x) : FLeq(m, e)
MaxOf(x) == CHOOSE m \in Entries(x) : \A e \in Entries(x) : FLeq(e, m)

FSub(x, y) == FAdd(x, <<-y[1], y[2]>>)
\* x / y for finite x and y: x / 0 is NaN for x = 0 and +-Inf otherwise.
FDiv(x, y) == Frac(x[1] * y[2], x[2] * y[1])

\* norm = lambda x: (x-x.min())/(x.max()-x.min()) if x.size>0 else x
norm(x) ==
    IF Size(x) > 0
    THEN LET lo == MinOf(x)
             range == FSub(MaxOf(x), lo)
         IN  [x EXCEPT !.v = [i \in 1..x.rows |->
                                 [j \in 1..x.cols |-> FDiv(FSub(x.v[i][j], lo), range)]]]
    ELSE x

\* np.concatenate([a, b], axis=-1) is defined when the row counts agree.
CanConcatenate(a, b) == a.rows = b.rows

Concatenate(a, b) ==
    [rows |-> a.rows, cols |-> a.cols + b.cols, v |-> [i \in 1..a.rows |-> a.v[i] \o b.v[i]]]

\* The columns from..to of x.
Columns(x, from, to) ==
    [rows |-> x.rows, cols |-> to - from + 1,
     v |-> [i \in 1..x.rows |-> [j \in 1..(to - from + 1) |-> x.v[i][from + j - 1]]]]

\* ------------------------------------------------------------- pe_path_from

\* A path is a sequence of characters.  s.split(c):
RECURSIVE Split(_, _)
Split(s, c) ==
    IF \A p \in 1..Len(s) : s[p] # c THEN <<s>>
    ELSE LET k == CHOOSE p \in 1..Len(s) : s[p] = c /\ \A q \in 1..(p - 1) : s[q] # c
         IN  <<SubSeq(s, 1, k - 1)>> \o Split(SubSeq(s, k + 1, Len(s)), c)

\* c.join(parts)
RECURSIVE Join(_, _)
Join(c, parts) ==
    IF parts = << >> THEN << >>
    ELSE IF Len(parts) = 1 THEN parts[1]
    ELSE parts[1] \o <<c>> \o Join(c, Tail(parts))

Digit(n) == <<"0", "1", "2", "3", "4", "5", "6", "7", "8", "9">>[n + 1]

\* f'{n}' of a natural number.
RECURSIVE Str(_)
Str(n) == IF n < 10 THEN <<Digit(n)>> ELSE Str(n \div 10) \o <<Digit(n % 10)>>

pe_path_from(a) ==
    LET dirs == Split(a.adj_path, "/")
        base_path == Join("/", SubSeq(dirs, 1, Len(dirs) - 1)) \o <<"/">>
        pe_path == base_path \o <<"p", "e", "_">> \o <<"d", "i", "m">> \o Str(a.pe_size) \o <<"_">>
    IN  pe_path \o Join("_", Tail(Split(dirs[Len(dirs)], "_")))

\* ---------------------------------------------------------------- the state

VARIABLES
    args,        \* [adj_path, pe_path, pe_size]
    A,           \* pd.read_parquet(args.adj_path).T.to_numpy(): the adjacency table
    le_size, rw_size, n2v_size, use_cached,   \* the keyword arguments of pos_enc
    fs,          \* the cache files: path -> [kind, m]
    fs_start,    \* fs when the running compute_pos_enc started
    pc,          \* where the running call is
    data,        \* the graph compute_pos_enc built
    pe_le, pe_rw, pe_n2v,   \* the three blocks
    pe,          \* the assembled matrix
    ran,         \* what the running call invoked: compute_pos_enc, encoders
    completed,   \* the stages of the running compute_pos_enc that completed
    ret,         \* one record per finished call of pos_enc
    eig_fn,      \* the arguments of the last call of the eigen-solver
    eig_vals, eig_vecs,   \* what the solver returned
    sign,        \* the signs drawn for the columns
    epoch,       \* node2vec: the epochs finished
    pending,     \* the batches the loader has not yet yielded in this epoch
    batch,       \* the batch in work, 0 between batches
    step,        \* where the trainer is
    loss,        \* the loss of the batch in work
    total_loss,  \* the sum of the losses of this epoch
    log,         \* the operations of this epoch, in order: <<batch, operation>>
    updates      \* the optimizer steps taken so far

inputs == <<args, A, le_size, rw_size, n2v_size, use_cached>>
blocks == <<pe_le, pe_rw, pe_n2v, pe>>
\* The local variables of the spectral transform and of the embedding trainer.
spectral == <<eig_fn, eig_vals, eig_vecs, sign>>
trainer == <<epoch, pending, batch, step, loss, total_loss, log, updates>>
locals == <<spectral, trainer>>
vars == <<args, A, le_size, rw_size, n2v_size, use_cached, fs, fs_start, pc, data,
          pe_le, pe_rw, pe_n2v, pe, ran, completed, ret, spectral, trainer>>

\* No call of the eigen-solver yet, no training run under way.
SpectralIdle ==
    eig_fn = [k |-> 0] /\ eig_vals = << >> /\ eig_vecs = << >> /\ sign = << >>
TrainerIdle ==
    /\ epoch = 0 /\ pending = {} /\ batch = 0 /\ step = "idle"
    /\ loss = 0 /\ total_loss = 0 /\ log = << >> /\ updates = 0

Encoders == {"le", "rw", "n2v"}

\* ---------------------------------------------------------------- the inputs

\* The adjacency tables: every r x c table of entries 0..MaxEntry.
Sources ==
    UNION {{[rows |-> r, cols |-> c, v |-> m] : m \in [1..r -> [1..c -> 0..MaxEntry]]} :
              r \in 1..MaxDim, c \in 1..MaxDim}

\* A source in a directory and a source with no directory.
AdjPaths == {<<"d", "/", "a", "_", "g">>, <<"a", "_", "g">>}

\* A cache path the caller may pass that is not the derived one.
OtherPath == <<"d", "/", "p", "e">>

Absent == [kind |-> "absent", m |-> EmptyBlock(0)]
Corrupt == [kind |-> "corrupt", m |-> EmptyBlock(0)]
Table(m) == [kind |-> "table", m |-> m]

\* An artifact an earlier run left: a 1 x 1 table holding 1/2.
Stale == Table([rows |-> 1, cols |-> 1, v |-> <<<<(<<1, 2>>)>>>>])

\* The eigenvectors a solver run may return: column c of every row i holds
\* s * i + c, so s = 0 gives constant columns.
EigVecs(N, k) == {[i \in 1..N |-> [c \in 1..(k + 1) |-> s * i + c]] : s \in 0..MaxVal}

EigVals(k) == [1..(k + 1) -> 0..MaxVal]

\* The embedding tables a training run may return: entry (i, j) holds
\* s * (i + j) - 1, so s = 0 gives a constant table.
EmbeddingTables(N, d) ==
    {[rows |-> N, cols |-> d, v |-> [i \in 1..N |-> [j \in 1..d |-> <<s * (i + j) - 1, 1>>]]] :
        s \in 0..MaxVal}

\* ------------------------------------------------------------ compute_pos_enc

\* np.where(A): the index pairs of the non-zero entries, by row then column.
Where(T) ==
    LET s == SortPairs({p \in (0..(T.rows - 1)) \X (0..(T.cols - 1)) : T.v[p[1] + 1][p[2] + 1] # 0})
    IN  <<[p \in 1..Len(s) |-> s[p][1]], [p \in 1..Len(s) |-> s[p][2]]>>

\* adj = A if A.shape[0]==2 else np.where(A)
EdgeIndexOf(T) == IF T.rows = 2 THEN <<T.v[1], T.v[2]>> ELSE Where(T)

NoBlock == EmptyBlock(0)
NoData == Data(<<<< >>, << >>>>)

Result(status, error, cached, m) ==
    [status |-> status, error |-> error, cached |-> cached, pe |-> m,
     ran |-> ran, completed |-> completed]

\* An exception leaves compute_pos_enc and pos_enc: the call ends with it.
Raise(error) ==
    /\ ret' = Append(ret, Result("raised", error, FALSE, NoBlock))
    /\ pc' = "idle"

Init ==
    /\ A \in Sources
    /\ le_size \in 0..MaxSize
    /\ rw_size \in 0..MaxSize
    /\ n2v_size \in 0..MaxSize
    /\ use_cached \in BOOLEAN
    /\ \E adj_path \in AdjPaths, pe_size \in 0..MaxPeSize :
          \E pe_path \in {pe_path_from([adj_path |-> adj_path, pe_size |-> pe_size]), OtherPath} :
              /\ args = [adj_path |-> adj_path, pe_path |-> pe_path, pe_size |-> pe_size]
              /\ fs \in [{pe_path, pe_path_from(args)} -> {Absent, Corrupt, Stale}]
    /\ fs_start = fs
    /\ pc = "idle"
    /\ data = NoData
    /\ pe_le = NoBlock /\ pe_rw = NoBlock /\ pe_n2v = NoBlock /\ pe = NoBlock
    /\ ran = {}
    /\ completed = {}
    /\ ret = << >>
    /\ SpectralIdle /\ TrainerIdle

\* os.path.exists(pe_path)
Exists(path) == fs[path].kind # "absent"

\* pos_enc, the cache is used and the file at args.pe_path reads as a table.
PosEncRead ==
    /\ pc = "idle" /\ Len(ret) < MaxCalls
    /\ use_cached /\ Exists(args.pe_path)
    /\ fs[args.pe_path].kind = "table"
    /\ ran' = {} /\ completed' = {}
    /\ ret' = Append(ret, [status |-> "ok", error |-> "none", cached |-> TRUE,
                           pe |-> fs[args.pe_path].m, ran |-> {}, completed |-> {}])
    /\ UNCHANGED <<inputs, locals, fs, fs_start, pc, data, blocks>>

\* pos_enc, the cache is used and pd.read_parquet raises on the file.
PosEncReadError ==
    /\ pc = "idle" /\ Len(ret) < MaxCalls
    /\ use_cached /\ Exists(args.pe_path)
    /\ fs[args.pe_path].kind = "corrupt"
    /\ ran' = {} /\ completed' = {}
    /\ ret' = Append(ret, [status |-> "raised", error |-> "read", cached |-> FALSE,
                           pe |-> NoBlock, ran |-> {}, completed |-> {}])
    /\ UNCHANGED <<inputs, locals, fs, fs_start, pc, data, blocks>>

\* pos_enc, the else branch: compute_pos_enc is called.
PosEncCompute ==
    /\ pc = "idle" /\ Len(ret) < MaxCalls
    /\ ~(use_cached /\ Exists(args.pe_path))
    /\ pc' = "load"
    /\ ran' = {"compute_pos_enc"} /\ completed' = {}
    /\ fs_start' = fs
    /\ data' = NoData
    /\ pe_le' = NoBlock /\ pe_rw' = NoBlock /\ pe_n2v' = NoBlock /\ pe' = NoBlock
    /\ UNCHANGED <<inputs, locals, fs, ret>>

\* The table is read and the graph is built from it.
LoadSource ==
    /\ pc = "load"
    /\ data' = Data(EdgeIndexOf(A))
    /\ pc' = "le"
    /\ UNCHANGED <<inputs, locals, fs, fs_start, blocks, ran, completed, ret>>

\* le_size > 0: the spectral encoder runs and returns its block.
SpectralEncode ==
    /\ pc = "le" /\ le_size > 0
    /\ data.num_nodes > 0
    /\ \E vals \in EigVals(le_size), vecs \in EigVecs(data.num_nodes, le_size),
          sgn \in Signs(le_size) :
          \E order \in ArgSorts(vals) :
              pe_le' = LaplacianPE(vecs, order, sgn, le_size, data.num_nodes)
    /\ ran' = ran \cup {"le"}
    /\ completed' = completed \cup {"le"}
    /\ pc' = "rw"
    /\ UNCHANGED <<inputs, locals, fs, fs_start, data, pe_rw, pe_n2v, pe, ret>>

\* le_size > 0: the spectral encoder runs and raises (the solver fails).
SpectralFail ==
    /\ pc = "le" /\ le_size > 0
    /\ ran' = ran \cup {"le"}
    /\ Raise("encoder")
    /\ UNCHANGED <<inputs, locals, fs, fs_start, data, blocks, completed>>

\* le_size == 0: the empty block, without the encoder.
SpectralEmpty ==
    /\ pc = "le" /\ le_size = 0
    /\ pe_le' = EmptyBlock(A.rows)
    /\ completed' = completed \cup {"le"}
    /\ pc' = "rw"
    /\ UNCHANGED <<inputs, locals, fs, fs_start, data, pe_rw, pe_n2v, pe, ran, ret>>

\* rw_size > 0: the diffusion encoder runs and returns its block.
DiffusionEncode ==
    /\ pc = "rw" /\ rw_size > 0
    /\ pe_rw' = RandomWalkPE(data, rw_size)
    /\ ran' = ran \cup {"rw"}
    /\ completed' = completed \cup {"rw"}
    /\ pc' = "n2v"
    /\ UNCHANGED <<inputs, locals, fs, fs_start, data, pe_le, pe_n2v, pe, ret>>

\* rw_size > 0: the diffusion encoder runs and raises.
DiffusionFail ==
    /\ pc = "rw" /\ rw_size > 0
    /\ ran' = ran \cup {"rw"}
    /\ Raise("encoder")
    /\ UNCHANGED <<inputs, locals, fs, fs_start, data, blocks, completed>>

\* rw_size == 0: the empty block, without the encoder.
DiffusionEmpty ==
    /\ pc = "rw" /\ rw_size = 0
    /\ pe_rw' = EmptyBlock(A.rows)
    /\ completed' = completed \cup {"rw"}
    /\ pc' = "n2v"
    /\ UNCHANGED <<inputs, locals, fs, fs_start, data, pe_le, pe_n2v, pe, ran, ret>>

\* n2v_size > 0: the embedding trainer runs and its table is read out.
EmbeddingTrain ==
    /\ pc = "n2v" /\ n2v_size > 0
    /\ data.num_nodes > 0
    /\ pe_n2v' \in EmbeddingTables(data.num_nodes, n2v_size)
    /\ ran' = ran \cup {"n2v"}
    /\ completed' = completed \cup {"n2v"}
    /\ pc' = "assemble"
    /\ UNCHANGED <<inputs, locals, fs, fs_start, data, pe_le, pe_rw, pe, ret>>

\* The trainer raises after the blocks computed so far were written to the cache.
EmbeddingFail_WritesPartial ==
    /\ pc = "n2v" /\ n2v_size > 0
    /\ ran' = ran \cup {"n2v"}
    /\ Raise("encoder")
    /\ fs' = [fs EXCEPT ![pe_path_from(args)] = Table(norm(pe_le))]
    /\ UNCHANGED <<inputs, locals, fs_start, data, blocks, completed>>

\* n2v_size > 0: the embedding trainer runs and raises.
EmbeddingFail ==
    /\ pc = "n2v" /\ n2v_size > 0
    /\ ran' = ran \cup {"n2v"}
    /\ Raise("encoder")
    /\ UNCHANGED <<inputs, locals, fs, fs_start, data, blocks, completed>>

\* n2v_size == 0: the empty block, without the trainer.
EmbeddingEmpty ==
    /\ pc = "n2v" /\ n2v_size = 0
    /\ pe_n2v' = EmptyBlock(A.rows)
    /\ completed' = completed \cup {"n2v"}
    /\ pc' = "assemble"
    /\ UNCHANGED <<inputs, locals, fs, fs_start, data, pe_le, pe_rw, pe, ran, ret>>

\* pe = np.concatenate([norm(pe_le), norm(pe_n2v)], axis=-1)
Assemble ==
    /\ pc = "assemble"
    /\ CanConcatenate(norm(pe_le), norm(pe_n2v))
    /\ pe' = Concatenate(norm(pe_le), norm(pe_n2v))
    /\ completed' = completed \cup {"assemble"}
    /\ pc' = "write"
    /\ UNCHANGED <<inputs, locals, fs, fs_start, data, pe_le, pe_rw, pe_n2v, ran, ret>>

\* np.concatenate raises on blocks of different row counts.
AssembleFail ==
    /\ pc = "assemble"
    /\ ~CanConcatenate(norm(pe_le), norm(pe_n2v))
    /\ Raise("assemble")
    /\ UNCHANGED <<inputs, locals, fs, fs_start, data, blocks, ran, completed>>

\* The matrix is written to pe_path_from(args) and returned.
WriteCache ==
    /\ pc = "write"
    /\ fs' = [fs EXCEPT ![pe_path_from(args)] = Table(pe)]
    /\ completed' = completed \cup {"write"}
    /\ ret' = Append(ret, [status |-> "ok", error |-> "none", cached |-> FALSE, pe |-> pe,
                           ran |-> ran, completed |-> completed'])
    /\ pc' = "idle"
    /\ UNCHANGED <<inputs, locals, fs_start, data, blocks, ran>>

\* to_parquet raises and writes nothing.
WriteFail ==
    /\ pc = "write"
    /\ Raise("write")
    /\ UNCHANGED <<inputs, locals, fs, fs_start, data, blocks, ran, completed>>

Next ==
    \/ PosEncRead \/ PosEncReadError \/ PosEncCompute
    \/ LoadSource
    \/ SpectralEncode \/ SpectralFail \/ SpectralEmpty
    \/ DiffusionEncode \/ DiffusionFail \/ DiffusionEmpty
    \/ EmbeddingTrain \/ EmbeddingFail \/ EmbeddingEmpty
    \/ Assemble \/ AssembleFail
    \/ WriteCache \/ WriteFail

Spec == Init /\ [][Next]_vars

\* ------------------------------------------------------------------ claim C1

\* C1: two calls of pos_enc in sequence with use_cached=true on an unchanged
\* source: the second call returns the matrix the first returned and runs no
\* encoder and no recomputation.
C1_CacheRoundTrip ==
    (use_cached /\ Len(ret) >= 2 /\ ret[1].status = "ok") =>
        /\ ret[2].status = "ok"
        /\ ret[2].cached
        /\ ret[2].pe = ret[1].pe
        /\ ret[2].ran = {}

\* ------------------------------------------------------------------ claim C2

\* The directory part of a path: all up to its last "/", nothing when it has none.
SourceDirectory(path) ==
    IF \A p \in 1..Len(path) : path[p] # "/" THEN << >>
    ELSE SubSeq(path, 1, CHOOSE p \in 1..Len(path) :
                             path[p] = "/" /\ \A q \in (p + 1)..Len(path) : path[q] # "/")

FileName(path) == SubSeq(path, Len(SourceDirectory(path)) + 1, Len(path))

\* What follows the first "_" of a name, nothing when it has none.
RemainingSuffix(name) ==
    IF \A p \in 1..Len(name) : name[p] # "_" THEN << >>
    ELSE SubSeq(name, 1 + CHOOSE p \in 1..Len(name) :
                             name[p] = "_" /\ \A q \in 1..(p - 1) : name[q] # "_", Len(name))

\* C2: the cache path is the source's directory, then 'pe_', 'dim<pe_size>_'
\* and the remaining suffix of the adjacency file name, and the dimension in
\* the name is the width of the matrix persisted there.
C2_CachePath ==
    /\ pe_path_from(args) =
           SourceDirectory(args.adj_path) \o <<"p", "e", "_">> \o <<"d", "i", "m">>
           \o Str(args.pe_size) \o <<"_">> \o RemainingSuffix(FileName(args.adj_path))
    /\ \A c \in 1..Len(ret) :
           "write" \in ret[c].completed => ret[c].pe.cols = args.pe_size

\* ------------------------------------------------------------------ claim C3

\* C3: the cache is written only after the spectral encoder, the diffusion
\* encoder, the embedding trainer and the assembler have completed, and a
\* call that ends with the failure of one of them leaves the cache files as
\* they were when it started.
C3_NoPartialCacheWrite ==
    [][/\ fs' # fs => (pc = "write" /\ {"le", "rw", "n2v", "assemble"} \subseteq completed)
       /\ (Len(ret') > Len(ret) /\ ret'[Len(ret')].error \in {"encoder", "assemble"})
              => fs' = fs_start]_vars

\* A first call wrote the cache; a second one recomputed, completed an encoder
\* and then ended with an encoder failure.
C3_Witness ==
    /\ Len(ret) = 2
    /\ "write" \in ret[1].completed
    /\ ret[2].error = "encoder"
    /\ ret[2].completed # {}
    /\ fs[pe_path_from(args)] = Table(ret[1].pe)

\* ------------------------------------------------------------------ claim C4

\* C4: a cache file that cannot be read is a cache miss: no call of pos_enc
\* ends with the read error.
C4_ReadFailureIsMiss == \A c \in 1..Len(ret) : ret[c].error # "read"

\* ------------------------------------------------------------ claims C5, C6

\* The table is neither square nor a 2 x E edge index.
Malformed(T) == T.rows # 2 /\ T.rows # T.cols

\* The node count of a source: of its edge index in 2 x E form, its side in
\* dense form.
GraphNodes(T) == IF T.rows = 2 THEN NumNodes(EdgeIndexOf(T)) ELSE T.rows

\* C5: the assembled matrix has num_nodes rows and le_size + n2v_size columns:
\* the normalized spectral block, then the normalized learned block.
C5_AssembledShape ==
    (~Malformed(A) /\ "assemble" \in completed) =>
        /\ pe.rows = GraphNodes(A)
        /\ pe.cols = le_size + n2v_size
        /\ Columns(pe, 1, le_size) = norm(pe_le)
        /\ Columns(pe, le_size + 1, pe.cols) = norm(pe_n2v)

\* C6: a block size of 0 gives a block of num_nodes rows and no column without
\* the encoder, and concatenating it with the other block succeeds.
C6_EmptyBlock ==
    ~Malformed(A) =>
        /\ (le_size = 0 /\ "le" \in completed) =>
               (pe_le = EmptyBlock(GraphNodes(A)) /\ "le" \notin ran)
        /\ (rw_size = 0 /\ "rw" \in completed) =>
               (pe_rw = EmptyBlock(GraphNodes(A)) /\ "rw" \notin ran)
        /\ (n2v_size = 0 /\ "n2v" \in completed) =>
               (pe_n2v = EmptyBlock(GraphNodes(A)) /\ "n2v" \notin ran)
        /\ (pc = "assemble" /\ (le_size = 0 \/ n2v_size = 0)) =>
               CanConcatenate(norm(pe_le), norm(pe_n2v))

\* ------------------------------------------------------------ claims C7, C8

\* The two blocks of the assembled matrix.
AssembledBlocks == {Columns(pe, 1, pe_le.cols), Columns(pe, pe_le.cols + 1, pe.cols)}

\* C7: after normalization a non-empty block has minimum 0 and maximum 1 and
\* all entries in [0, 1]; an empty block is unchanged.
C7_NormalizedRange ==
    "assemble" \in completed =>
        /\ \A b \in AssembledBlocks :
               Size(b) > 0 =>
                   /\ \A e \in Entries(b) : IsFinite(e) /\ FLeq(Zero, e) /\ FLeq(e, One)
                   /\ Zero \in Entries(b)
                   /\ One \in Entries(b)
        /\ \A x \in {pe_le, pe_n2v} : Size(x) = 0 => norm(x) = x

\* C8: a non-empty block of zero range makes the assembler fail or emit zeros:
\* no assembled matrix and no cache file holds NaN or Inf.
C8_NoNaN ==
    /\ \A e \in Entries(pe) : IsFinite(e)
    /\ \A p \in DOMAIN fs : \A e \in Entries(fs[p].m) : IsFinite(e)

\* ------------------------------------------------------------------ claim C9

\* C9: on a malformed source compute_pos_enc aborts before any encoder starts
\* and writes no cache file.
C9_MalformedFatal ==
    Malformed(A) =>
        /\ ran \cap Encoders = {}
        /\ "write" \notin completed
        /\ \A c \in 1..Len(ret) :
               ret[c].ran \cap Encoders = {} /\ "write" \notin ret[c].completed

\* ------------------------------------------- the diffusion encoder on its own

\* The graphs the transform is given: an edge list of at most MaxEdges edges
\* over the nodes 0..MaxNode, unweighted (w = 0) or with the weight w - 1 on
\* every edge; the node count is derived from the indices.
RWData(row, col, w) ==
    [edge_index |-> <<row, col>>, weighted |-> w > 0,
     edge_weight |-> IF w > 0 THEN [p \in 1..Len(row) |-> w - 1] ELSE << >>,
     num_nodes |-> NumNodes(<<row, col>>)]

InitRW ==
    /\ \E E \in 0..MaxEdges, w \in 0..(MaxWeight + 1) :
          \E row \in [1..E -> 0..MaxNode], col \in [1..E -> 0..MaxNode] :
              data = RWData(row, col, w)
    /\ rw_size \in 1..MaxWalk
    /\ pc = "rw"
    /\ A = [rows |-> 1, cols |-> 1, v |-> <<<<0>>>>]
    /\ le_size = 0 /\ n2v_size = 0 /\ use_cached = FALSE
    /\ args = [adj_path |-> << >>, pe_path |-> << >>, pe_size |-> 0]
    /\ fs = [p \in {<< >>} |-> Absent]
    /\ fs_start = fs
    /\ pe_le = NoBlock /\ pe_rw = NoBlock /\ pe_n2v = NoBlock /\ pe = NoBlock
    /\ ran = {}
    /\ completed = {}
    /\ ret = << >>
    /\ SpectralIdle /\ TrainerIdle

SpecRW == InitRW /\ [][DiffusionEncode]_vars

\* ----------------------------------------------------------------- claim C10

\* The edges of the graph, as a set of pairs.
EdgeSet(d) == {<<d.edge_index[1][p], d.edge_index[2][p]>> : p \in 1..NumEdges(d.edge_index)}

\* The nodes a walk of exactly t steps from the nodes S can end at.
RECURSIVE WalkEnds(_, _, _)
WalkEnds(d, S, t) ==
    IF t = 0 THEN S
    ELSE LET from == WalkEnds(d, S, t - 1)
         IN  {e[2] : e \in {f \in EdgeSet(d) : f[1] \in from}}

ClosedWalk(d, v, t) == v \in WalkEnds(d, {v}, t)

Isolated(d, v) == \A e \in EdgeSet(d) : e[1] # v /\ e[2] # v

\* The transition probability u -> v: the edges u -> v, each counted 1 over
\* the out-weight of u (at least 1).
RECURSIVE OutWeight(_, _, _)
OutWeight(d, u, k) ==
    IF k = 0 THEN 0
    ELSE OutWeight(d, u, k - 1)
         + (IF d.edge_index[1][k] # u THEN 0 ELSE IF d.weighted THEN d.edge_weight[k] ELSE 1)

Transition(d, u, v) ==
    Frac(Cardinality({p \in 1..NumEdges(d.edge_index) :
                         d.edge_index[1][p] = u /\ d.edge_index[2][p] = v}),
         Max(OutWeight(d, u, NumEdges(d.edge_index)), 1))

\* sum over k' < k of Q[u, k'] * P[k', v]
RECURSIVE RowByColumn(_, _, _, _, _)
RowByColumn(Q, P, u, v, k) ==
    IF k = 0 THEN Zero
    ELSE IF Q[<<u, k - 1>>] = Zero \/ P[<<k - 1, v>>] = Zero THEN RowByColumn(Q, P, u, v, k - 1)
    ELSE FAdd(RowByColumn(Q, P, u, v, k - 1), FMul(Q[<<u, k - 1>>], P[<<k - 1, v>>]))

\* The transition matrix, as a function of <<u, v>>.
TransitionMatrix(d) ==
    [e \in (0..(d.num_nodes - 1)) \X (0..(d.num_nodes - 1)) |-> Transition(d, e[1], e[2])]

\* The diagonals of Q, Q P, Q P P, ... (remaining + 1 of them), n the node count.
RECURSIVE Diagonals(_, _, _, _)
Diagonals(P, Q, n, remaining) ==
    <<[v \in 0..(n - 1) |-> Q[<<v, v>>]]>>
    \o (IF remaining = 0 THEN << >>
        ELSE Diagonals(P, [e \in DOMAIN P |-> RowByColumn(Q, P, e[1], e[2], n)],
                       n, remaining - 1))

\* C10: the diffusion encoder returns a num_nodes x L matrix whose column t is
\* the diagonal of the t-th power of the transition operator; an entry is 0
\* where the node has no closed walk of length t, the row of an isolated node
\* is all zeros, and column 1 is non-zero only at nodes with a self-loop.
C10_DiffusionDiagonal ==
    "rw" \in completed =>
        /\ pe_rw.rows = data.num_nodes
        /\ pe_rw.cols = rw_size
        /\ pe_rw.v = LET P == TransitionMatrix(data)
                         diag == Diagonals(P, P, data.num_nodes, rw_size - 1)
                     IN  [i \in 1..data.num_nodes |-> [t \in 1..rw_size |-> diag[t][i - 1]]]
        /\ \A v \in 0..(data.num_nodes - 1), t \in 1..rw_size :
              /\ ~ClosedWalk(data, v, t) => pe_rw.v[v + 1][t] = Zero
              /\ Isolated(data, v) => pe_rw.v[v + 1][t] = Zero
              /\ (t = 1 /\ pe_rw.v[v + 1][t] # Zero) => <<v, v>> \in EdgeSet(data)

\* An encoded graph with an isolated node and a node that has no self-loop,
\* a closed walk of length 2 and none of length 3.
C10_Witness ==
    /\ "rw" \in completed
    /\ rw_size >= 3
    /\ \E v \in 0..(data.num_nodes - 1) : Isolated(data, v)
    /\ \E u \in 0..(data.num_nodes - 1) :
          /\ pe_rw.v[u + 1][1] = Zero
          /\ pe_rw.v[u + 1][2] # Zero
          /\ pe_rw.v[u + 1][3] = Zero

\* ----------------------------------------------------------------- claim C11

\* The graph has an edge stored more than once: the dense tensor of the
\* N <= 2_000 branch (last write stays) differs from the CSR tensor (sum).
RepeatedEdge(d) ==
    \E p, q \in 1..NumEdges(d.edge_index) :
        p # q /\ d.edge_index[1][p] = d.edge_index[1][q] /\ d.edge_index[2][p] = d.edge_index[2][q]

WeightOf(d, p) == IF d.weighted THEN d.edge_weight[p] ELSE 1

\* Sum of value[p] over the edges p <= k that leave u.
RECURSIVE ValueOut(_, _, _, _)
ValueOut(value, row, u, k) ==
    IF k = 0 THEN Zero
    ELSE IF row[k] = u THEN FAdd(ValueOut(value, row, u, k - 1), value[k])
    ELSE ValueOut(value, row, u, k - 1)

\* C12: the transition weight of an edge (u, v) of weight w is w over the
\* out-weight of u (over 1 where the out-weight is zero), and the transition
\* weights out of every node with an outgoing edge sum to 1.
C12_RowNormalized ==
    "rw" \in completed =>
        LET E == NumEdges(data.edge_index)
            row == data.edge_index[1]
            value == TransitionValue(data)
            out(u) == OutWeight(data, u, E)
        IN  /\ \A p \in 1..E :
                  value[p] = Frac(WeightOf(data, p), IF out(row[p]) = 0 THEN 1 ELSE out(row[p]))
            /\ \A p \in 1..E : ValueOut(value, row, row[p], E) = One

\* ------------------------------------------- the spectral encoder on its own

\* The transform is given a graph of 1..MaxNode + 1 nodes and k = le_size.
InitLE ==
    /\ \E n \in 0..MaxNode : data = Data(<<<<0>>, <<n>>>>)
    /\ le_size \in 1..MaxK
    /\ pc = "le"
    /\ A = [rows |-> 1, cols |-> 1, v |-> <<<<0>>>>]
    /\ rw_size = 0 /\ n2v_size = 0 /\ use_cached = FALSE
    /\ args = [adj_path |-> << >>, pe_path |-> << >>, pe_size |-> 0]
    /\ fs = [p \in {<< >>} |-> Absent]
    /\ fs_start = fs
    /\ pe_le = NoBlock /\ pe_rw = NoBlock /\ pe_n2v = NoBlock /\ pe = NoBlock
    /\ ran = {}
    /\ completed = {}
    /\ ret = << >>
    /\ SpectralIdle /\ TrainerIdle

\* eig_vals, eig_vecs = eig_fn(L, k=self.k + 1, which='SR', ...): the solver
\* returns as many eigenpairs as it was asked for, in any order.
EigenSolve ==
    /\ pc = "le" /\ le_size > 0
    /\ eig_fn' = [k |-> le_size + 1]
    /\ eig_vals' \in [1..eig_fn'.k -> 0..MaxEig]
    /\ eig_vecs' \in EigVecs(data.num_nodes, eig_fn'.k - 1)
    /\ ran' = ran \cup {"le"}
    /\ pc' = "argsort"
    /\ UNCHANGED <<inputs, trainer, fs, fs_start, data, blocks, completed, ret, sign>>

\* The eigenvectors are ordered by eig_vals.argsort(), the columns 1..k are
\* taken and multiplied by the drawn signs.
SelectEigenvectors ==
    /\ pc = "argsort"
    /\ \E order \in ArgSorts(eig_vals) :
          /\ sign' \in Signs(le_size)
          /\ pe_le' = LaplacianPE(eig_vecs, order, sign', le_size, data.num_nodes)
    /\ completed' = completed \cup {"le"}
    /\ pc' = "rw"
    /\ UNCHANGED <<inputs, trainer, fs, fs_start, data, pe_rw, pe_n2v, pe, ran, ret,
                   eig_fn, eig_vals, eig_vecs>>

NextLE == EigenSolve \/ SelectEigenvectors

SpecLE == InitLE /\ [][NextLE]_vars

\* ----------------------------------------------------------------- claim C13

\* Eigenpair j has rank r (counted from 0) in an ascending order of the
\* eigenvalues: at most r eigenvalues are smaller, at least r + 1 are not larger.
HasRank(j, r) ==
    /\ Cardinality({i \in 1..Len(eig_vals) : eig_vals[i] < eig_vals[j]}) <= r
    /\ Cardinality({i \in 1..Len(eig_vals) : eig_vals[i] <= eig_vals[j]}) >= r + 1

\* C13: k + 1 eigenpairs are requested; the output has num_nodes rows and k
\* columns; column c is the eigenvector of rank c in ascending eigenvalue
\* order (rank 0, the smallest, is discarded) times a sign that is +1 or -1.
C13_SpectralSelection ==
    "le" \in completed =>
        LET k == le_size
            N == data.num_nodes
        IN  /\ eig_fn.k = k + 1
            /\ Len(eig_vals) = k + 1
            /\ pe_le.rows = N /\ pe_le.cols = k
            /\ \A i \in 1..N : Len(pe_le.v[i]) = k
            /\ \A c \in 1..k : sign[c] \in {-1, 1}
            /\ \E f \in [0..k -> 1..(k + 1)] :
                  /\ \A a, b \in 0..k : a # b => f[a] # f[b]
                  /\ \A r \in 0..k : HasRank(f[r], r)
                  /\ \A c \in 1..k, i \in 1..N :
                        pe_le.v[i][c] = <<sign[c] * eig_vecs[i][f[c]], 1>>

\* A run with k >= 2 on a graph of several nodes where the solver returned the
\* eigenvalues out of order with the smallest one not first, all distinct, and
\* the signs drawn are not all equal.
C13_Witness ==
    /\ "le" \in completed
    /\ le_size >= 2 /\ data.num_nodes >= 2
    /\ eig_vals[1] > eig_vals[2] /\ eig_vals[2] > eig_vals[3]
    /\ sign[1] = -1 /\ sign[2] = 1
    /\ \E i \in 1..data.num_nodes : pe_le.v[i][1] # pe_le.v[i][2]

\* ------------------------------------------- the embedding trainer on its own

\* for epoch in range(21)
Epochs == 21

\* len(loader): the node indices in batches of batch_size, the last one short.
LoaderLen(N, batch_size) == (N + batch_size - 1) \div batch_size

\* What a step inside node2vec leaves alone.
outside == <<inputs, spectral, fs, fs_start, pc, data, blocks, ran, completed, ret>>

\* node2vec is given a graph of 1..MaxNode + 1 nodes and dim = n2v_size.
InitN2V ==
    /\ \E n \in 0..MaxNode : data = Data(<<<<0>>, <<n>>>>)
    /\ n2v_size \in 1..MaxEmbed
    /\ pc = "n2v"
    /\ A = [rows |-> 1, cols |-> 1, v |-> <<<<0>>>>]
    /\ le_size = 0 /\ rw_size = 0 /\ use_cached = FALSE
    /\ args = [adj_path |-> << >>, pe_path |-> << >>, pe_size |-> 0]
    /\ fs = [p \in {<< >>} |-> Absent]
    /\ fs_start = fs
    /\ pe_le = NoBlock /\ pe_rw = NoBlock /\ pe_n2v = NoBlock /\ pe = NoBlock
    /\ ran = {}
    /\ completed = {}
    /\ ret = << >>
    /\ SpectralIdle /\ TrainerIdle

\* The model, the loader and the optimizer are built.
Node2VecSetup ==
    /\ pc = "n2v" /\ n2v_size > 0 /\ step = "idle"
    /\ step' = "for_epoch"
    /\ epoch' = 0 /\ updates' = 0
    /\ ran' = ran \cup {"n2v"}
    /\ UNCHANGED <<inputs, spectral, fs, fs_start, pc, data, blocks, completed, ret,
                   pending, batch, loss, total_loss, log>>

\* for epoch in range(21): train() is entered, the loader starts an iteration.
TrainStart ==
    /\ step = "for_epoch" /\ epoch < Epochs
    /\ total_loss' = 0
    /\ pending' = 1..LoaderLen(data.num_nodes, n2v_size)
    /\ log' = << >>
    /\ step' = "for_batch"
    /\ UNCHANGED <<outside, epoch, batch, loss, updates>>

\* for pos_rw, neg_rw in loader: the shuffled loader yields a batch it has
\* not yielded in this iteration.
LoaderYield ==
    /\ step = "for_batch" /\ pending # {}
    /\ \E b \in pending : batch' = b /\ pending' = pending \ {b}
    /\ step' = "zero_grad"
    /\ UNCHANGED <<outside, epoch, loss, total_loss, log, updates>>

\* optimizer.zero_grad()
ZeroGrad ==
    /\ step = "zero_grad"
    /\ log' = Append(log, <<batch, "zero_grad">>)
    /\ step' = "loss"
    /\ UNCHANGED <<outside, epoch, pending, batch, loss, total_loss, updates>>

\* loss = model.loss(pos_rw, neg_rw): any value.
ModelLoss ==
    /\ step = "loss"
    /\ loss' \in 0..MaxLoss
    /\ log' = Append(log, <<batch, "loss">>)
    /\ step' = "backward"
    /\ UNCHANGED <<outside, epoch, pending, batch, total_loss, updates>>

\* loss.backward()
Backward ==
    /\ step = "backward"
    /\ log' = Append(log, <<batch, "backward">>)
    /\ step' = "optimizer"
    /\ UNCHANGED <<outside, epoch, pending, batch, loss, total_loss, updates>>

\* optimizer.step(); total_loss += loss.item()
OptimizerStep ==
    /\ step = "optimizer"
    /\ updates' = updates + 1
    /\ total_loss' = total_loss + loss
    /\ log' = Append(log, <<batch, "step">>)
    /\ batch' = 0
    /\ step' = "for_batch"
    /\ UNCHANGED <<outside, epoch, pending, loss>>

\* The loader is exhausted and the loss of the epoch is zero: training stops.
TrainEnd_StopsOnConvergence ==
    /\ step = "for_batch" /\ pending = {}
    /\ epoch' = epoch + 1
    /\ step' = IF total_loss = 0 THEN "return" ELSE "for_epoch"
    /\ UNCHANGED <<outside, pending, batch, loss, total_loss, log, updates>>

\* The loader is exhausted: train() returns the mean loss, the epoch ends.
TrainEnd ==
    /\ step = "for_batch" /\ pending = {}
    /\ epoch' = epoch + 1
    /\ step' = "for_epoch"
    /\ UNCHANGED <<outside, pending, batch, loss, total_loss, log, updates>>

\* range(21) is exhausted: return model
Node2VecReturn ==
    /\ step = "for_epoch" /\ epoch >= Epochs
    /\ step' = "return"
    /\ UNCHANGED <<outside, epoch, pending, batch, loss, total_loss, log, updates>>

\* node2vec(...)(torch.arange(data.num_nodes)): the embedding of every node.
Readout ==
    /\ step = "return"
    /\ pe_n2v' \in EmbeddingTables(data.num_nodes, n2v_size)
    /\ completed' = completed \cup {"n2v"}
    /\ pc' = "assemble"
    /\ step' = "done"
    /\ UNCHANGED <<inputs, spectral, fs, fs_start, data, pe_le, pe_rw, pe, ran, ret,
                   epoch, pending, batch, loss, total_loss, log, updates>>

NextN2V ==
    \/ Node2VecSetup \/ TrainStart \/ LoaderYield
    \/ ZeroGrad \/ ModelLoss \/ Backward \/ OptimizerStep
    \/ TrainEnd \/ Node2VecReturn \/ Readout

\* One thread runs the loop and every step of it returns.
SpecN2V == InitN2V /\ [][NextN2V]_vars /\ WF_vars(NextN2V)

\* ----------------------------------------------------------------- claim C14

\* The operations on one batch, in the order the claim gives.
BatchOps == <<"zero_grad", "loss", "backward", "step">>

\* The log of an epoch is sequential: its entries come in groups of four, one
\* group per batch, each group the four operations in order on one batch, and
\* no batch has two groups.
Sequential(l) ==
    /\ \A q \in 1..Len(l) :
          /\ l[q][2] = BatchOps[((q - 1) % 4) + 1]
          /\ l[q][1] = l[q - ((q - 1) % 4)][1]
    /\ \A q, r \in 1..Len(l) : (l[q][1] = l[r][1]) => ((q - 1) \div 4 = (r - 1) \div 4)

\* The log holds every batch of the loader, each exactly once and in full.
FullEpoch(l) ==
    LET n == LoaderLen(data.num_nodes, n2v_size)
    IN  /\ Len(l) = 4 * n
        /\ Sequential(l)
        /\ {l[q][1] : q \in 1..Len(l)} = 1..n

TrainerSafe ==
    /\ Sequential(log)
    /\ epoch <= Epochs
    /\ (step = "for_epoch" /\ epoch > 0) => FullEpoch(log)
    /\ step \in {"for_epoch", "return", "done"} =>
           updates = epoch * LoaderLen(data.num_nodes, n2v_size)
    /\ step \in {"return", "done"} => epoch = Epochs
    /\ step # "done" => pe_n2v = NoBlock
    /\ step = "done" => pe_n2v.rows = data.num_nodes /\ pe_n2v.cols = n2v_size

\* C14: training always ends, after exactly the fixed number of epochs whatever
\* the losses are; every epoch processes every batch of the loader exactly
\* once, one batch at a time in the order zero_grad, loss, backward, step; the
\* embedding of all nodes is read out only after the last epoch.
C14_FixedEpochBudget == []TrainerSafe /\ <>(step = "done")

\* A finished run on a loader of several batches whose last epoch had loss 0
\* on every batch.
C14_Witness ==
    /\ step = "done"
    /\ epoch = Epochs
    /\ LoaderLen(data.num_nodes, n2v_size) >= 2
    /\ total_loss = 0
    /\ updates = Epochs * LoaderLen(data.num_nodes, n2v_size)
    /\ pe_n2v.rows = data.num_nodes

====
